---- MODULE Spec2Model ----
(***************************************************************************)
(* Model of the compiler package installer (install script) and           *)
(* uninstaller (uninstall.js) of aily-project-compilers.                  *)
(*                                                                         *)
(* One OS process runs at a time (install or uninstall).  Inside the      *)
(* install process the nested asynchronous functions are modelled as      *)
(* cooperating state machines: extractArchives (pc), withRetry (rt),      *)
(* getZipFile (dl), waitForFileReady (gate) and unpack (up).  Error       *)
(* messages are sequences of string tokens; a template string is the      *)
(* concatenation of its literal parts and its interpolated values.        *)
(***************************************************************************)
EXTENDS Integers, Sequences, FiniteSets, TLC

(* ---------------- bounds of the model ---------------- *)
MaxNameLen == 3
MaxRuns == 2
MaxChunks == 2
MaxOutputChunks == 1
MaxRetriesBound == 4
MaxAttemptsBound == 4

(* ---------------- program constants ---------------- *)
DownloadRetries == 3
ExtractRetries == 3
GateAttempts == 20
MinArchiveSize == 1048576

(* ---------------- input domains ---------------- *)
ChunkSizes == {512000, 536575, 536576}
InitSizes == {0, 512000, 1048576}
BadStatus == {404, 500}
NetErrors == {"ECONNRESET", "ENOTFOUND"}
DiskErrors == {"ENOSPC"}
TransientCodes == {"EBUSY", "ENOENT", "EPERM"}
OpenCodes == TransientCodes \cup {"EACCES"}
ExitCodes == {0, 1, 2}
DiagText == {"ERROR: Data Error", "Can not open the file as archive"}
OpErrors == {"e1", "e2"}
OpValues == {"v1", "v2"}

VARIABLES
    destSet,        \* process.env.AILY_COMPILERS_PATH is non-empty
    urlSet,         \* process.env.AILY_ZIP_URL is non-empty
    srcExists,      \* fs.existsSync(srcDir)
    toolExists,     \* fs.existsSync(_7zaPath)
    destDirExists,  \* fs.existsSync(destDir)
    targetExists,   \* fs.existsSync(path.join(destDir, <name>@<version>))
    zipExists,      \* fs.existsSync(<srcDir>/<name>@<version>.7z)
    zipSize,        \* size in bytes of that file (0 when absent)
    proc,           \* program of the current / last process
    runs,           \* number of processes started so far
    pc,             \* position of the main function of the process
    exitCode,       \* -1 while running, else the exit status
    outcome,        \* how the run ended
    err,            \* message of the error caught by the top-level catch
    fileName,       \* extractArchives local fileName
    rt,             \* withRetry frame
    dl,             \* getZipFile promise and its DownloadSession
    unlinkPending,  \* fs.unlink calls issued whose callback has not run
    streamLinked,   \* the open write stream's file is still at filePath
    gate,           \* waitForFileReady promise
    up,             \* unpack promise
    op,             \* abstract operation handed to withRetry
    httpRequests,   \* httpClient.get calls in this run
    spawns,         \* spawn calls in this run
    zipWrites,      \* createWriteStream and fs.unlink calls on filePath in this run
    fileReport,     \* what removeFile logged
    dirReport,      \* what removeDirectory logged
    fs0,            \* history: the archive file and target directory at Init
    pkg,            \* package.json name and version, and the names made of them
    hist            \* history: what earlier steps and runs did

vars == <<destSet, urlSet, srcExists, toolExists, destDirExists,
          targetExists, zipExists, zipSize, proc, runs, pc, exitCode,
          outcome, err, fileName, rt, dl, unlinkPending, streamLinked,
          gate, up, op, httpRequests, spawns, zipWrites, fileReport,
          dirReport, fs0, pkg, hist>>

envVars == <<destSet, urlSet, fs0, pkg>>
fsVars == <<srcExists, toolExists, destDirExists, targetExists, zipExists,
            zipSize>>
mainVars == <<proc, runs, pc, exitCode, outcome, err, fileName>>
countVars == <<httpRequests, spawns, zipWrites>>
reportVars == <<fileReport, dirReport>>

(* ---------------- messages ---------------- *)
Contains(msg, tok) == \E i \in 1..Len(msg) : msg[i] = tok

IsSuffix(s, msg) ==
    /\ Len(s) <= Len(msg)
    /\ SubSeq(msg, Len(msg) - Len(s) + 1, Len(msg)) = s

IsInfix(s, msg) ==
    \E i \in 0..(Len(msg) - Len(s)) : SubSeq(msg, i + 1, i + Len(s)) = s

(* ---------------- package names ---------------- *)
\* a string is the sequence of its characters; the prefix counts as one
Prefix == <<"@aily-project/compiler-">>
Extension == <<".", "7", "z">>
NameChars == {"a", ".", "7", "z"}
Versions == {<<"1">>, <<"1", ".", "0">>}

\* String.prototype.replace with a string pattern: the first occurrence
Replace(str, pat, by) ==
    IF IsInfix(pat, str)
    THEN LET i == CHOOSE k \in 0..(Len(str) - Len(pat)) :
                     /\ SubSeq(str, k + 1, k + Len(pat)) = pat
                     /\ \A j \in 0..(k - 1) :
                           SubSeq(str, j + 1, j + Len(pat)) # pat
         IN  SubSeq(str, 1, i) \o by \o SubSeq(str, i + Len(pat) + 1, Len(str))
    ELSE str

\* getZipFileName (lines 100-107)
GetZipFileNameOf(name, version) ==
    Replace(name, Prefix, <<>>) \o <<"@">> \o version \o Extension

\* targetDirName of extractArchives (line 216)
TargetDirNameOf(zipFileName) == Replace(zipFileName, Extension, <<>>)

\* compilerDirName of uninstall.js (lines 14-21)
CompilerDirNameOf(name, version) ==
    Replace(name, Prefix, <<>>) \o <<"@">> \o version

PkgOf(name, version) ==
    [name |-> name, version |-> version, zipFileName |-> <<>>,
     targetDirName |-> <<>>, compilerDirName |-> <<>>]

ZipFileName == "name@version.7z"
ZipFilePath == "srcDir/name@version.7z"

(* ---------------- idle frames ---------------- *)
RtIdle == [state |-> "idle", fn |-> "op", attempt |-> 0, maxRetries |-> 0,
           lastError |-> <<>>, calls |-> 0,
           result |-> "", error |-> <<>>]
DlIdle == [state |-> "idle", downloadedSize |-> 0, chunks |-> 0,
           status |-> 0, fault |-> "", result |-> "", error |-> <<>>]
GateIdle == [state |-> "idle", attempts |-> 0, maxAttempts |-> 0, opens |-> 0,
             okOpens |-> 0, lastCode |-> "", settles |-> 0,
             error |-> <<>>]
UpIdle == [state |-> "idle", output |-> <<>>, code |-> -1, error |-> <<>>]
OpIdle == [state |-> "idle", plan |-> <<>>, invocations |-> 0,
           result |-> "", error |-> <<>>]
\* onlyInstalls: every process so far ran the installer
\* extractedOk:  some archive tool process exited with code 0
\* prevDone:     the previous process was an install that reached its end
\* dlFresh:      no archive file existed when this run's download started
\* dlCompleted:  an attempt of this run's download got 200 and its stream
\*               finished and closed
HistIdle == [onlyInstalls |-> TRUE, extractedOk |-> FALSE, prevDone |-> FALSE,
             dlFresh |-> FALSE, dlCompleted |-> FALSE]

\* getZipFile without the existsSync short-circuit
GetZipFileCallAlwaysDownloads ==
    /\ zipExists' = TRUE
    /\ zipSize' = 0
    /\ streamLinked' = TRUE
    /\ zipWrites' = zipWrites + 1
    /\ httpRequests' = httpRequests + 1
    /\ dl' = [DlIdle EXCEPT !.state = "requesting"]

(***************************************************************************)
(* getZipFile: the promise executor (lines 114-129).                      *)
(***************************************************************************)
GetZipFileCall ==
    IF zipExists
    THEN /\ dl' = [DlIdle EXCEPT !.state = "resolved", !.result = ZipFileName]
         /\ UNCHANGED <<zipExists, zipSize, streamLinked, httpRequests,
                        zipWrites>>
    ELSE /\ zipExists' = TRUE
         /\ zipSize' = 0
         /\ streamLinked' = TRUE
         /\ zipWrites' = zipWrites + 1
         /\ httpRequests' = httpRequests + 1
         /\ dl' = [DlIdle EXCEPT !.state = "requesting"]

(***************************************************************************)
(* unpack: the promise executor up to spawn (lines 302-313).              *)
(***************************************************************************)
UnpackCall ==
    IF ~destSet
    THEN /\ up' = [UpIdle EXCEPT !.state = "rejected",
                                 !.error = <<"destination must not be empty">>]
         /\ UNCHANGED spawns
    ELSE /\ spawns' = spawns + 1
         /\ up' = [UpIdle EXCEPT !.state = "running"]

(* the abstract operation: a call starts its next invocation *)
OpCall ==
    op' = [op EXCEPT !.state = "called", !.invocations = @ + 1,
                     !.result = "", !.error = <<>>]

(* fn(): what the call of the wrapped function does, by callee *)
FnCall(f) ==
    CASE f = "getZipFile" ->
            /\ GetZipFileCall
            /\ UNCHANGED <<up, op, spawns, unlinkPending>>
            /\ UNCHANGED <<srcExists, toolExists, destDirExists, targetExists>>
      [] f = "unpack" ->
            /\ UnpackCall
            /\ UNCHANGED <<dl, op, httpRequests, zipWrites, unlinkPending,
                           streamLinked>>
            /\ UNCHANGED fsVars
      [] f = "op" ->
            /\ OpCall
            /\ UNCHANGED <<dl, up, httpRequests, spawns, zipWrites,
                           unlinkPending, streamLinked>>
            /\ UNCHANGED fsVars

FnState(f) ==
    CASE f = "getZipFile" -> dl.state
      [] f = "unpack" -> up.state
      [] f = "op" -> op.state

FnResult(f) ==
    CASE f = "getZipFile" -> dl.result
      [] f = "unpack" -> ""
      [] f = "op" -> op.result

FnError(f) ==
    CASE f = "getZipFile" -> dl.error
      [] f = "unpack" -> up.error
      [] f = "op" -> op.error

(***************************************************************************)
(* withRetry (lines 42-60).                                               *)
(***************************************************************************)
RetryFrame(f, maxRetries) ==
    [RtIdle EXCEPT !.state = "loop", !.fn = f, !.attempt = 1,
                   !.maxRetries = maxRetries]

RetryExhaustedMessage(maxRetries, lastError) ==
    <<"after", ToString(maxRetries), "attempts the operation still failed:">>
        \o lastError

\* for (attempt = 1; attempt <= maxRetries; ...) { try { return await fn();
RetryCall ==
    /\ rt.state = "loop"
    /\ rt.attempt <= rt.maxRetries
    /\ rt' = [rt EXCEPT !.state = "awaiting", !.calls = @ + 1]
    /\ FnCall(rt.fn)
    /\ UNCHANGED <<envVars, mainVars, gate, reportVars>>
    /\ UNCHANGED hist

\* return await fn();  -- the awaited promise fulfilled
RetryReturn ==
    /\ rt.state = "awaiting"
    /\ FnState(rt.fn) = "resolved"
    /\ rt' = [rt EXCEPT !.state = "returned", !.result = FnResult(rt.fn)]
    /\ UNCHANGED <<envVars, fsVars, mainVars, dl, unlinkPending, streamLinked,
                   gate, up, op, countVars, reportVars>>
    /\ UNCHANGED hist

\* withRetry that gives up after the first failure
RetryCatchGivesUp ==
    /\ rt.state = "awaiting"
    /\ FnState(rt.fn) = "rejected"
    /\ rt' = [rt EXCEPT !.state = "loop", !.lastError = FnError(rt.fn),
                        !.attempt = rt.maxRetries + 1]
    /\ UNCHANGED <<envVars, fsVars, mainVars, dl, unlinkPending, streamLinked,
                   gate, up, op, countVars, reportVars>>
    /\ UNCHANGED hist

\* catch (error) { lastError = error; if (attempt < maxRetries) wait }
RetryCatch ==
    /\ rt.state = "awaiting"
    /\ FnState(rt.fn) = "rejected"
    /\ rt' = IF rt.attempt < rt.maxRetries
             THEN [rt EXCEPT !.state = "delay", !.lastError = FnError(rt.fn)]
             ELSE [rt EXCEPT !.state = "loop", !.lastError = FnError(rt.fn),
                             !.attempt = @ + 1]
    /\ UNCHANGED <<envVars, fsVars, mainVars, dl, unlinkPending, streamLinked,
                   gate, up, op, countVars, reportVars>>
    /\ UNCHANGED hist

\* the setTimeout(resolve, retryDelay) fired; attempt++
RetryTimer ==
    /\ rt.state = "delay"
    /\ rt' = [rt EXCEPT !.state = "loop", !.attempt = @ + 1]
    /\ UNCHANGED <<envVars, fsVars, mainVars, dl, unlinkPending, streamLinked,
                   gate, up, op, countVars, reportVars>>
    /\ UNCHANGED hist

\* loop left without return: throw new Error(`... ${lastError.message}`)
RetryThrow ==
    /\ rt.state = "loop"
    /\ rt.attempt > rt.maxRetries
    /\ rt' = [rt EXCEPT !.state = "thrown",
                        !.error = RetryExhaustedMessage(rt.maxRetries,
                                                        rt.lastError)]
    /\ UNCHANGED <<envVars, fsVars, mainVars, dl, unlinkPending, streamLinked,
                   gate, up, op, countVars, reportVars>>
    /\ UNCHANGED hist

(***************************************************************************)
(* getZipFile: the callbacks registered by the executor (lines 129-184).  *)
(***************************************************************************)
dlFrame == <<envVars, mainVars, rt, gate, up, op, spawns, reportVars,
             srcExists, toolExists, destDirExists, targetExists>>

StatusMessage(status) == <<"download failed: status code", ToString(status)>>

\* fs.unlink(filePath, () => { }); reject(e)
UnlinkAndReject(code) ==
    /\ unlinkPending' = unlinkPending + 1
    /\ zipWrites' = zipWrites + 1
    /\ dl' = [dl EXCEPT !.state = "rejected", !.fault = code,
                        !.error = <<code>>]

\* response callback, statusCode !== 200 (lines 130-135)
ResponseNon200 ==
    /\ dl.state = "requesting"
    /\ \E status \in BadStatus :
          /\ unlinkPending' = unlinkPending + 1
          /\ zipWrites' = zipWrites + 1
          /\ dl' = [dl EXCEPT !.state = "rejected", !.status = status,
                              !.error = StatusMessage(status)]
    /\ UNCHANGED <<dlFrame, zipExists, zipSize, streamLinked, httpRequests>>
    /\ UNCHANGED hist

\* response callback, statusCode === 200: handlers registered, pipe started
Response200 ==
    /\ dl.state = "requesting"
    /\ dl' = [dl EXCEPT !.state = "streaming", !.status = 200]
    /\ UNCHANGED <<dlFrame, zipExists, zipSize, streamLinked, unlinkPending,
                   countVars>>
    /\ UNCHANGED hist

\* response 'data': downloadedSize += chunk.length; pipe writes the chunk
ResponseData ==
    /\ dl.state = "streaming"
    /\ dl.chunks < MaxChunks
    /\ \E chunk \in ChunkSizes :
          /\ dl' = [dl EXCEPT !.downloadedSize = @ + chunk, !.chunks = @ + 1]
          /\ zipSize' = IF streamLinked THEN zipSize + chunk ELSE zipSize
    /\ UNCHANGED <<dlFrame, zipExists, streamLinked, unlinkPending, countVars>>
    /\ UNCHANGED hist

\* response 'end': pipe calls fileStream.end()
ResponseEnd ==
    /\ dl.state = "streaming"
    /\ dl' = [dl EXCEPT !.state = "flushing"]
    /\ UNCHANGED <<dlFrame, zipExists, zipSize, streamLinked, unlinkPending,
                   countVars>>
    /\ UNCHANGED hist

\* the body is cut short (connection closed before 'end'): the response
\* emits 'aborted'/'close'; no handler is registered for it and pipe does
\* not end the destination, so neither resolve nor reject is ever called
ResponseAborted ==
    /\ dl.state = "streaming"
    /\ dl' = [dl EXCEPT !.state = "stalled", !.fault = "aborted"]
    /\ UNCHANGED <<dlFrame, zipExists, zipSize, streamLinked, unlinkPending,
                   countVars>>
    /\ UNCHANGED hist

\* fileStream 'finish' (lines 162-175): fileStream.close(cb)
FileStreamFinish ==
    /\ dl.state = "flushing"
    /\ dl' = [dl EXCEPT !.state = "closing"]
    /\ UNCHANGED <<dlFrame, zipExists, zipSize, streamLinked, unlinkPending,
                   countVars>>
    /\ UNCHANGED hist

\* close callback (lines 168-174): setTimeout(..., 200)
FileStreamClosed ==
    /\ dl.state = "closing"
    /\ dl' = [dl EXCEPT !.state = "settling"]
    /\ UNCHANGED <<dlFrame, zipExists, zipSize, streamLinked, unlinkPending,
                   countVars>>
    /\ hist' = [hist EXCEPT !.dlCompleted = TRUE]

\* the 200 ms timer: resolve(zipFileName)
SettleTimer ==
    /\ dl.state = "settling"
    /\ dl' = [dl EXCEPT !.state = "resolved", !.result = ZipFileName]
    /\ UNCHANGED <<dlFrame, zipExists, zipSize, streamLinked, unlinkPending,
                   countVars>>
    /\ UNCHANGED hist

\* fileStream 'error' with the handler of lines 177-180 registered
FileStreamError ==
    /\ dl.state \in {"streaming", "flushing"}
    /\ \E code \in DiskErrors : UnlinkAndReject(code)
    /\ UNCHANGED <<dlFrame, zipExists, zipSize, streamLinked, httpRequests>>
    /\ UNCHANGED hist

\* request 'error' (lines 181-184)
RequestError ==
    /\ dl.state \in {"requesting", "streaming"}
    /\ \E code \in NetErrors : UnlinkAndReject(code)
    /\ UNCHANGED <<dlFrame, zipExists, zipSize, streamLinked, httpRequests>>
    /\ UNCHANGED hist

\* a fire-and-forget fs.unlink completes; its callback ignores the outcome
UnlinkDone ==
    /\ unlinkPending > 0
    /\ unlinkPending' = unlinkPending - 1
    /\ zipExists' = FALSE
    /\ zipSize' = 0
    /\ streamLinked' = FALSE
    /\ UNCHANGED <<dlFrame, dl, countVars>>
    /\ UNCHANGED hist

UnlinkFailed ==
    /\ unlinkPending > 0
    /\ zipExists
    /\ unlinkPending' = unlinkPending - 1
    /\ UNCHANGED <<dlFrame, dl, zipExists, zipSize, streamLinked, countVars>>
    /\ UNCHANGED hist

(***************************************************************************)
(* Process start and end.                                                  *)
(***************************************************************************)
Start(program, entry) ==
    /\ pc \in {"none", "exited"}
    /\ runs < MaxRuns
    /\ unlinkPending = 0
    /\ proc' = program
    /\ runs' = runs + 1
    /\ pc' = entry
    /\ exitCode' = -1
    /\ outcome' = "running"
    /\ err' = <<>>
    /\ fileName' = ""
    /\ httpRequests' = 0
    /\ spawns' = 0
    /\ zipWrites' = 0
    /\ fileReport' = "none"
    /\ dirReport' = "none"
    /\ UNCHANGED <<envVars, fsVars, rt, dl, unlinkPending, streamLinked, gate,
                   up, op>>
    /\ hist' = [hist EXCEPT
                   !.onlyInstalls = @ /\ program = "install",
                   !.prevDone = (proc = "install" /\ outcome = "done"),
                   !.dlFresh = FALSE, !.dlCompleted = FALSE]

\* node install.js
StartInstall ==
    /\ Start("install", "CheckSource")
    /\ proc' = "install"

\* node uninstall.js
StartUninstall ==
    /\ Start("uninstall", "RemoveFile")
    /\ proc' = "uninstall"

\* the process ends: its promises and frames are gone
Exit(code, how, e) ==
    /\ pc' = "exited"
    /\ exitCode' = code
    /\ outcome' = how
    /\ err' = e
    /\ rt' = RtIdle
    /\ dl' = DlIdle
    /\ gate' = GateIdle
    /\ up' = UpIdle
    /\ UNCHANGED <<proc, runs, fileName, op>>
    /\ hist' = [hist EXCEPT !.dlFresh = FALSE, !.dlCompleted = FALSE]

\* extractArchives returns; nothing is left to run and node exits with 0
Return(how) == Exit(0, how, <<>>)

\* catch (err) { console.error(...); process.exit(1); }  (lines 294-297)
Fatal(how, e) == Exit(1, how, e)

Goto(label) ==
    /\ pc' = label
    /\ UNCHANGED <<proc, runs, exitCode, outcome, err, fileName>>
    /\ UNCHANGED hist

(***************************************************************************)
(* extractArchives (lines 200-298).                                       *)
(***************************************************************************)
mainFrame == <<envVars, unlinkPending, streamLinked, op, countVars,
               reportVars>>

\* lines 203-206
CheckSource ==
    /\ proc = "install" /\ pc = "CheckSource"
    /\ IF ~srcExists
       THEN Return("srcMissing")
       ELSE Goto("CheckDest") /\ UNCHANGED <<rt, dl, gate, up>>
    /\ UNCHANGED <<mainFrame, fsVars>>

\* lines 209-212
CheckDest ==
    /\ proc = "install" /\ pc = "CheckDest"
    /\ IF ~destSet
       THEN Return("destUnset")
       ELSE Goto("CheckInstalled") /\ UNCHANGED <<rt, dl, gate, up>>
    /\ UNCHANGED <<mainFrame, fsVars>>

\* extractArchives that logs the existing target but goes on
CheckInstalledFallsThrough ==
    /\ proc = "install" /\ pc = "CheckInstalled"
    /\ Goto("CheckTool")
    /\ UNCHANGED <<rt, dl, gate, up>>
    /\ UNCHANGED <<mainFrame, fsVars>>

\* lines 215-223
CheckInstalled ==
    /\ proc = "install" /\ pc = "CheckInstalled"
    /\ IF targetExists
       THEN Return("skip")
       ELSE Goto("CheckTool") /\ UNCHANGED <<rt, dl, gate, up>>
    /\ UNCHANGED <<mainFrame, fsVars>>

\* lines 226-229
CheckTool ==
    /\ proc = "install" /\ pc = "CheckTool"
    /\ IF ~toolExists
       THEN Return("toolMissing")
       ELSE Goto("EnsureDestDir") /\ UNCHANGED <<rt, dl, gate, up>>
    /\ UNCHANGED <<mainFrame, fsVars>>

\* lines 231-234: fs.mkdirSync(destDir, { recursive: true })
EnsureDestDir ==
    /\ proc = "install" /\ pc = "EnsureDestDir"
    /\ destDirExists' = TRUE
    /\ Goto("CheckURL")
    /\ UNCHANGED <<mainFrame, rt, dl, gate, up, srcExists, toolExists,
                   targetExists, zipExists, zipSize>>

\* lines 237-248 (destDir exists by now, the second mkdir is skipped)
CheckURL ==
    /\ proc = "install" /\ pc = "CheckURL"
    /\ IF ~urlSet
       THEN Fatal("urlUnset", <<"download base URL not set">>)
       ELSE Goto("Download") /\ UNCHANGED <<rt, dl, gate, up>>
    /\ UNCHANGED <<mainFrame, fsVars>>

\* line 253: withRetry(getZipFile, 3, 2000)
StartDownload ==
    /\ proc = "install" /\ pc = "Download"
    /\ rt' = RetryFrame("getZipFile", DownloadRetries)
    /\ pc' = "AwaitDownload"
    /\ hist' = [hist EXCEPT !.dlFresh = ~zipExists]
    /\ UNCHANGED <<proc, runs, exitCode, outcome, err, fileName>>
    /\ UNCHANGED <<mainFrame, fsVars, dl, gate, up>>

\* line 253: fileName = await ...
DownloadReturned ==
    /\ pc = "AwaitDownload"
    /\ rt.state = "returned"
    /\ fileName' = rt.result
    /\ pc' = "ValidateSize"
    /\ rt' = RtIdle
    /\ dl' = DlIdle
    /\ UNCHANGED <<mainFrame, fsVars, proc, runs, exitCode, outcome, err,
                   gate, up>>
    /\ hist' = [hist EXCEPT !.dlFresh = FALSE, !.dlCompleted = FALSE]

\* lines 254-256, then 294-297
DownloadThrown ==
    /\ pc = "AwaitDownload"
    /\ rt.state = "thrown"
    /\ Fatal("downloadFailed", <<"cannot download zip file:">> \o rt.error)
    /\ UNCHANGED <<mainFrame, fsVars>>

GateExhaustedMessage(maxAttempts, filePath) ==
    <<"file still unavailable after", ToString(maxAttempts), "attempts:",
      filePath>>

\* waitForFileReady(filePath, maxAttempts, interval): checkFile() (line 96)
GateFrame(maxAttempts) ==
    [GateIdle EXCEPT !.state = "opening", !.attempts = 1, !.opens = 1,
                     !.maxAttempts = maxAttempts]

TooSmallMessage(size) ==
    <<"downloaded file abnormally small (", ToString(size), "bytes)">>

\* size check that also refuses a file of exactly MinArchiveSize bytes
ValidateSizeInclusive ==
    /\ pc = "ValidateSize"
    /\ IF ~zipExists
       THEN Fatal("statFailed",
                  <<"downloaded file does not exist:", ZipFilePath>>)
       ELSE IF zipSize <= MinArchiveSize
       THEN Fatal("sizeFailed",
                  <<"check file failed:">> \o TooSmallMessage(zipSize))
       ELSE /\ Goto("AwaitReady")
            /\ gate' = GateFrame(GateAttempts)
            /\ UNCHANGED <<rt, dl, up>>
    /\ UNCHANGED <<mainFrame, fsVars>>

\* lines 259-272, then 276: waitForFileReady(zipFilePath, 20, 500)
ValidateSize ==
    /\ pc = "ValidateSize"
    /\ IF ~zipExists
       THEN Fatal("statFailed",
                  <<"downloaded file does not exist:", ZipFilePath>>)
       ELSE IF zipSize < MinArchiveSize
       THEN Fatal("sizeFailed",
                  <<"check file failed:">> \o TooSmallMessage(zipSize))
       ELSE /\ Goto("AwaitReady")
            /\ gate' = GateFrame(GateAttempts)
            /\ UNCHANGED <<rt, dl, up>>
    /\ UNCHANGED <<mainFrame, fsVars>>

\* line 276 resolved, then line 283: withRetry(async () => unpack(...), 3, 2000)
GateResolved ==
    /\ pc = "AwaitReady"
    /\ gate.state = "resolved"
    /\ gate' = GateIdle
    /\ rt' = RetryFrame("unpack", ExtractRetries)
    /\ Goto("AwaitExtract")
    /\ UNCHANGED <<mainFrame, fsVars, dl, up>>

\* extractArchives that logs the failed wait and extracts anyway
GateRejectedIgnored ==
    /\ pc = "AwaitReady"
    /\ gate.state = "rejected"
    /\ gate' = GateIdle
    /\ rt' = RetryFrame("unpack", ExtractRetries)
    /\ Goto("AwaitExtract")
    /\ UNCHANGED <<mainFrame, fsVars, dl, up>>

\* lines 277-279, then 294-297
GateRejected ==
    /\ pc = "AwaitReady"
    /\ gate.state = "rejected"
    /\ Fatal("gateFailed", <<"waiting for file ready failed:">> \o gate.error)
    /\ UNCHANGED <<mainFrame, fsVars>>

\* line 286 and the end of the function
ExtractReturned ==
    /\ pc = "AwaitExtract"
    /\ rt.state = "returned"
    /\ Return("done")
    /\ UNCHANGED <<mainFrame, fsVars>>

\* extractArchives that logs the extraction failure and returns
ExtractThrownSwallowed ==
    /\ pc = "AwaitExtract"
    /\ rt.state = "thrown"
    /\ Return("extractFailed")
    /\ UNCHANGED <<mainFrame, fsVars>>

\* lines 291-293, then 294-297
ExtractThrown ==
    /\ pc = "AwaitExtract"
    /\ rt.state = "thrown"
    /\ Fatal("extractFailed", <<"extraction failed:">> \o rt.error)
    /\ UNCHANGED <<mainFrame, fsVars>>

\* fileStream 'error' before the response callback registered a handler:
\* an unhandled 'error' event is an uncaught exception
FileStreamErrorUnhandled ==
    /\ dl.state = "requesting"
    /\ \E code \in DiskErrors : Exit(1, "crash", <<code>>)
    /\ UNCHANGED <<mainFrame, fsVars>>

\* the download promise can no longer settle and nothing is scheduled:
\* the event loop drains and the process ends
StalledExit ==
    /\ dl.state = "stalled"
    /\ Exit(0, "abandoned", <<>>)
    /\ UNCHANGED <<mainFrame, fsVars>>

(***************************************************************************)
(* waitForFileReady (lines 63-98).                                        *)
(***************************************************************************)
gateFrame == <<envVars, fsVars, mainVars, rt, dl, unlinkPending, streamLinked,
               up, op, countVars, reportVars>>

\* fs.open callback without error (lines 84-91): fs.close(fd, cb)
GateOpenOk ==
    /\ gate.state = "opening"
    /\ zipExists
    /\ gate' = [gate EXCEPT !.state = "closing", !.okOpens = @ + 1,
                            !.lastCode = ""]
    /\ UNCHANGED gateFrame
    /\ UNCHANGED hist

\* fs.close callback (lines 85-91): resolve()
GateClosed ==
    /\ gate.state = "closing"
    /\ gate' = [gate EXCEPT !.state = "resolved", !.settles = @ + 1]
    /\ UNCHANGED gateFrame
    /\ UNCHANGED hist

\* waitForFileReady that polls once more than maxAttempts
GateOpenTransientOneMore ==
    /\ gate.state = "opening"
    /\ \E code \in TransientCodes :
          /\ (code = "ENOENT") <=> ~zipExists
          /\ gate' = IF gate.attempts <= gate.maxAttempts
                     THEN [gate EXCEPT !.state = "waiting", !.lastCode = code]
                     ELSE [gate EXCEPT !.state = "rejected",
                              !.lastCode = code, !.settles = @ + 1,
                              !.error = GateExhaustedMessage(gate.maxAttempts,
                                                             ZipFilePath)]
    /\ UNCHANGED gateFrame
    /\ UNCHANGED hist

\* fs.open callback with EBUSY, ENOENT or EPERM (lines 73-79)
GateOpenTransient ==
    /\ gate.state = "opening"
    /\ \E code \in TransientCodes :
          /\ (code = "ENOENT") <=> ~zipExists
          /\ gate' = IF gate.attempts < gate.maxAttempts
                     THEN [gate EXCEPT !.state = "waiting", !.lastCode = code]
                     ELSE [gate EXCEPT !.state = "rejected",
                              !.lastCode = code, !.settles = @ + 1,
                              !.error = GateExhaustedMessage(gate.maxAttempts,
                                                             ZipFilePath)]
    /\ UNCHANGED gateFrame
    /\ UNCHANGED hist

\* waitForFileReady that polls again after any open error
GateOpenFatalRetried ==
    /\ gate.state = "opening"
    /\ zipExists
    /\ \E code \in OpenCodes \ TransientCodes :
          gate' = IF gate.attempts < gate.maxAttempts
                  THEN [gate EXCEPT !.state = "waiting", !.lastCode = code]
                  ELSE [gate EXCEPT !.state = "rejected", !.lastCode = code,
                                    !.settles = @ + 1, !.error = <<code>>]
    /\ UNCHANGED gateFrame
    /\ UNCHANGED hist

\* fs.open callback with any other error (lines 80-82): reject(err)
GateOpenFatal ==
    /\ gate.state = "opening"
    /\ zipExists
    /\ \E code \in OpenCodes \ TransientCodes :
          gate' = [gate EXCEPT !.state = "rejected", !.lastCode = code,
                               !.settles = @ + 1, !.error = <<code>>]
    /\ UNCHANGED gateFrame
    /\ UNCHANGED hist

\* setTimeout(checkFile, interval) fired: attempts++, fs.open (lines 67-71)
GatePollTimer ==
    /\ gate.state = "waiting"
    /\ gate' = [gate EXCEPT !.state = "opening", !.attempts = @ + 1,
                            !.opens = @ + 1]
    /\ UNCHANGED gateFrame
    /\ UNCHANGED hist

(***************************************************************************)
(* unpack: the child process events (lines 317-336).                      *)
(***************************************************************************)
upFrame == <<envVars, mainVars, rt, dl, unlinkPending, streamLinked, gate, op,
             countVars, reportVars, srcExists, toolExists, destDirExists,
             zipExists, zipSize>>

\* error of a failed extraction that drops the captured output
ExitMessageNoOutput(code, output) == <<"7-zip exit code", ToString(code)>>

ExitMessage(code, output) == <<"7-zip exit code", ToString(code)>> \o output

\* stdout / stderr 'data': output += chunk.toString()
UnpackOutput ==
    /\ up.state = "running"
    /\ Len(up.output) < MaxOutputChunks
    /\ \E text \in DiagText : up' = [up EXCEPT !.output = Append(@, text)]
    /\ UNCHANGED <<upFrame, targetExists>>
    /\ UNCHANGED hist

\* proc 'error' (lines 324-327): reject(err)
UnpackSpawnError ==
    /\ up.state = "running"
    /\ up.output = <<>>
    /\ up' = [up EXCEPT !.state = "rejected", !.error = <<"EACCES">>]
    /\ UNCHANGED <<upFrame, targetExists>>
    /\ UNCHANGED hist

\* proc 'exit' with code 0 (lines 329-331): the archive was extracted
UnpackExitOk ==
    /\ up.state = "running"
    /\ zipExists
    /\ up' = [up EXCEPT !.state = "resolved", !.code = 0]
    /\ targetExists' = TRUE
    /\ UNCHANGED upFrame
    /\ hist' = [hist EXCEPT !.extractedOk = TRUE]

\* proc 'exit' with another code (lines 332-335); the tool may have
\* written part of the tree before it failed
UnpackExitFail ==
    /\ up.state = "running"
    /\ \E code \in ExitCodes \ {0} :
          up' = [up EXCEPT !.state = "rejected", !.code = code,
                           !.error = ExitMessage(code, up.output)]
    /\ targetExists' \in {targetExists, zipExists}
    /\ UNCHANGED upFrame
    /\ UNCHANGED hist

(***************************************************************************)
(* uninstall.js: removeFile, removeDirectory, uninstall.                   *)
(***************************************************************************)
unFrame == <<envVars, rt, dl, unlinkPending, streamLinked, gate, up, op,
             countVars, srcExists, toolExists, destDirExists>>

\* uninstall that gives up when the archive file cannot be deleted
RemoveFileAborts ==
    /\ proc = "uninstall" /\ pc = "RemoveFile"
    /\ IF ~zipExists
       THEN /\ fileReport' = "notFound"
            /\ Goto("RemoveDir")
            /\ UNCHANGED <<zipExists, zipSize>>
       ELSE \/ /\ fileReport' = "deleted"
               /\ Goto("RemoveDir")
               /\ zipExists' = FALSE
               /\ zipSize' = 0
            \/ /\ fileReport' = "failed"
               /\ pc' = "exited"
               /\ exitCode' = 1
               /\ outcome' = "uninstallFailed"
               /\ UNCHANGED <<zipExists, zipSize, proc, runs, err, fileName,
                              hist>>
    /\ UNCHANGED <<unFrame, targetExists, dirReport>>

\* removeFile(zipFilePath) (lines 29-44, called at line 86)
RemoveFile ==
    /\ proc = "uninstall" /\ pc = "RemoveFile"
    /\ IF ~zipExists
       THEN /\ fileReport' = "notFound"
            /\ UNCHANGED <<zipExists, zipSize>>
       ELSE \/ /\ fileReport' = "deleted"
               /\ zipExists' = FALSE
               /\ zipSize' = 0
            \/ /\ fileReport' = "failed"
               /\ UNCHANGED <<zipExists, zipSize>>
    /\ Goto("RemoveDir")
    /\ UNCHANGED <<unFrame, targetExists, dirReport>>

\* removeDirectory given a path other than the one install extracted to
RemoveDirectoryWrongPath ==
    /\ dirReport' = "deleted"
    /\ UNCHANGED targetExists

\* fs.rmSync(dirPath, { recursive: true, force: true }) (line 56) and the
\* fs.rmdirSync(dirPath, { recursive: true }) fallback (line 58): a missing
\* path is not an error for either of them
RemoveDirectory ==
    IF ~targetExists
    THEN /\ dirReport' = "deleted"
         /\ UNCHANGED targetExists
    ELSE \/ /\ dirReport' = "deleted"
            /\ targetExists' = FALSE
         \/ /\ dirReport' = "failed"
            /\ UNCHANGED targetExists

\* uninstall that cleans path.join(destDir, compilerDirName) even for ""
RemoveDirUnconditional ==
    /\ proc = "uninstall" /\ pc = "RemoveDir"
    /\ RemoveDirectory
    /\ pc' = "exited"
    /\ exitCode' = 0
    /\ outcome' = "uninstalled"
    /\ UNCHANGED <<unFrame, zipExists, zipSize, fileReport, proc, runs, err,
                   fileName>>
    /\ UNCHANGED hist

\* lines 89-99
RemoveDir ==
    /\ proc = "uninstall" /\ pc = "RemoveDir"
    /\ IF ~destSet
       THEN /\ dirReport' = "skipped"
            /\ UNCHANGED targetExists
       ELSE RemoveDirectory
    /\ pc' = "exited"
    /\ exitCode' = 0
    /\ outcome' = "uninstalled"
    /\ UNCHANGED <<unFrame, zipExists, zipSize, fileReport, proc, runs, err,
                   fileName>>
    /\ UNCHANGED hist

(***************************************************************************)
(* The installer and the uninstaller, run one after the other.             *)
(***************************************************************************)
\* no process has been started yet
AtRest ==
    /\ proc = "none"
    /\ runs = 0
    /\ pc = "none"
    /\ exitCode = -1
    /\ outcome = "none"
    /\ err = <<>>
    /\ fileName = ""
    /\ dl = DlIdle
    /\ unlinkPending = 0
    /\ streamLinked = FALSE
    /\ up = UpIdle
    /\ httpRequests = 0
    /\ spawns = 0
    /\ zipWrites = 0
    /\ fileReport = "none"
    /\ dirReport = "none"
    /\ fs0 = [zip |-> zipExists, target |-> targetExists]
    /\ hist = HistIdle

\* the package the scripts are shipped in
PkgAtRest == pkg = PkgOf(Prefix \o <<"a">>, <<"1">>)

Init ==
    /\ destSet \in BOOLEAN
    /\ urlSet \in BOOLEAN
    /\ srcExists \in BOOLEAN
    /\ toolExists \in BOOLEAN
    /\ destDirExists \in (IF destSet THEN BOOLEAN ELSE {FALSE})
    /\ targetExists \in (IF destSet /\ ~destDirExists THEN {FALSE} ELSE BOOLEAN)
    /\ zipExists \in (IF srcExists THEN BOOLEAN ELSE {FALSE})
    /\ zipSize \in (IF zipExists THEN InitSizes ELSE {0})
    /\ AtRest
    /\ PkgAtRest
    /\ rt = RtIdle
    /\ gate = GateIdle
    /\ op = OpIdle

Next ==
    \/ StartInstall
    \/ StartUninstall
    \/ CheckSource
    \/ CheckDest
    \/ CheckInstalled
    \/ CheckTool
    \/ EnsureDestDir
    \/ CheckURL
    \/ StartDownload
    \/ RetryCall
    \/ RetryReturn
    \/ RetryCatch
    \/ RetryTimer
    \/ RetryThrow
    \/ ResponseNon200
    \/ Response200
    \/ ResponseData
    \/ ResponseEnd
    \/ ResponseAborted
    \/ FileStreamFinish
    \/ FileStreamClosed
    \/ SettleTimer
    \/ FileStreamError
    \/ FileStreamErrorUnhandled
    \/ RequestError
    \/ UnlinkDone
    \/ UnlinkFailed
    \/ StalledExit
    \/ DownloadReturned
    \/ DownloadThrown
    \/ ValidateSize
    \/ GateOpenOk
    \/ GateClosed
    \/ GateOpenTransient
    \/ GateOpenFatal
    \/ GatePollTimer
    \/ GateResolved
    \/ GateRejected
    \/ UnpackOutput
    \/ UnpackSpawnError
    \/ UnpackExitOk
    \/ UnpackExitFail
    \/ ExtractReturned
    \/ ExtractThrown
    \/ RemoveFile
    \/ RemoveDir

Spec == Init /\ [][Next]_vars

TypeOK ==
    /\ exitCode \in {-1, 0, 1}
    /\ unlinkPending \in 0..(MaxRuns * DownloadRetries)
    /\ zipSize \in Nat
    /\ ~zipExists => zipSize = 0

(***************************************************************************)
(* withRetry applied to an arbitrary operation.  The operation's          *)
(* behaviour is a plan: the outcome of its i-th invocation, a value it    *)
(* resolves with or an error it rejects with.                              *)
(***************************************************************************)
PlanLen == MaxRetriesBound + 1

opFrame == <<envVars, fsVars, mainVars, rt, dl, unlinkPending, streamLinked,
             gate, up, countVars, reportVars>>

OpResolve ==
    /\ op.state = "called"
    /\ op.plan[op.invocations] \in OpValues
    /\ op' = [op EXCEPT !.state = "resolved",
                        !.result = op.plan[op.invocations]]
    /\ UNCHANGED opFrame
    /\ UNCHANGED hist

OpReject ==
    /\ op.state = "called"
    /\ op.plan[op.invocations] \in OpErrors
    /\ op' = [op EXCEPT !.state = "rejected",
                        !.error = <<op.plan[op.invocations]>>]
    /\ UNCHANGED opFrame
    /\ UNCHANGED hist

InitRetry ==
    /\ destSet = FALSE
    /\ urlSet = FALSE
    /\ srcExists = TRUE
    /\ toolExists = FALSE
    /\ destDirExists = FALSE
    /\ targetExists = FALSE
    /\ zipExists = FALSE
    /\ zipSize = 0
    /\ AtRest
    /\ PkgAtRest
    /\ \E maxRetries \in 1..MaxRetriesBound : rt = RetryFrame("op", maxRetries)
    /\ gate = GateIdle
    /\ \E plan \in [1..PlanLen -> OpValues \cup OpErrors] :
          op = [OpIdle EXCEPT !.plan = plan]

NextRetry ==
    \/ RetryCall
    \/ RetryReturn
    \/ RetryCatch
    \/ RetryTimer
    \/ RetryThrow
    \/ OpResolve
    \/ OpReject

SpecRetry == InitRetry /\ [][NextRetry]_vars

(***************************************************************************)
(* waitForFileReady applied to a path, for any maxAttempts.                *)
(***************************************************************************)
InitGate ==
    /\ destSet = FALSE
    /\ urlSet = FALSE
    /\ srcExists = TRUE
    /\ toolExists = FALSE
    /\ destDirExists = FALSE
    /\ targetExists = FALSE
    /\ zipExists \in BOOLEAN
    /\ zipSize \in (IF zipExists THEN InitSizes ELSE {0})
    /\ AtRest
    /\ PkgAtRest
    /\ rt = RtIdle
    /\ \E maxAttempts \in 1..MaxAttemptsBound : gate = GateFrame(maxAttempts)
    /\ op = OpIdle

NextGate ==
    \/ GateOpenOk
    \/ GateClosed
    \/ GateOpenTransient
    \/ GateOpenFatal
    \/ GatePollTimer

SpecGate == InitGate /\ [][NextGate]_vars

(***************************************************************************)
(* Properties.                                                             *)
(***************************************************************************)
Min(a, b) == IF a <= b THEN a ELSE b

\* index of the first invocation the plan lets succeed, Len(plan) + 1 if none
FirstSuccess(plan) ==
    IF \E i \in 1..Len(plan) : plan[i] \in OpValues
    THEN CHOOSE i \in 1..Len(plan) :
            /\ plan[i] \in OpValues
            /\ \A j \in 1..(i - 1) : plan[j] \notin OpValues
    ELSE Len(plan) + 1

\* C1: an install run that finds <destDir>/<name>@<version> existing ends at
\* that check with exit status 0, having issued no HTTP request, spawned no
\* archive tool and touched no archive file.
C1_SkipWhenInstalled ==
    [][(proc = "install" /\ pc = "CheckInstalled" /\ targetExists)
          => /\ pc' = "exited"
             /\ exitCode' = 0
             /\ outcome' = "skip"
             /\ httpRequests' = 0
             /\ spawns' = 0
             /\ zipWrites' = 0
             /\ UNCHANGED fsVars]_vars

\* a second install run skipped after the first one extracted the archive
C1_Witness ==
    /\ proc = "install"
    /\ runs = 2
    /\ outcome = "skip"
    /\ exitCode = 0
    /\ httpRequests = 0
    /\ spawns = 0

\* C2: each of the four precondition failures (source directory missing,
\* destination unset, archive tool missing, download URL unset) ends the run
\* without download or extraction and with a non-zero exit status.
C2_PreconditionFailureExitsNonZero ==
    (proc = "install"
        /\ outcome \in {"srcMissing", "destUnset", "toolMissing", "urlUnset"})
    => /\ exitCode # 0
       /\ httpRequests = 0
       /\ spawns = 0

\* C3: withRetry invokes the operation exactly min(index of the first
\* success, maxRetries) times; it returns the result of the first success,
\* and when every allowed invocation fails it throws an error whose message
\* contains maxRetries and ends with the message of the last error.
C3_RetryInvocations ==
    LET first == FirstSuccess(op.plan)
        n == Min(first, rt.maxRetries)
    IN  /\ op.invocations <= n
        /\ rt.calls = op.invocations
        /\ rt.state \in {"returned", "thrown"} => op.invocations = n
        /\ rt.state = "returned"
              => first <= rt.maxRetries /\ rt.result = op.plan[first]
        /\ rt.state = "thrown"
              => /\ first > rt.maxRetries
                 /\ Contains(rt.error, ToString(rt.maxRetries))
                 /\ IsSuffix(<<op.plan[rt.maxRetries]>>, rt.error)

\* all of three allowed invocations failed, the last one with e2
C3_Witness ==
    /\ rt.state = "thrown"
    /\ rt.maxRetries = 3
    /\ op.invocations = 3
    /\ op.plan[1] = "e1"
    /\ IsSuffix(<<"e2">>, rt.error)

\* C4: a getZipFile call made while the archive file exists issues no HTTP
\* request, neither opens nor changes the file, and resolves with the
\* archive file name.
C4_ExistingFileShortCircuit ==
    [][(rt.state = "loop" /\ rt.fn = "getZipFile" /\ rt'.state = "awaiting"
           /\ zipExists)
          => /\ httpRequests' = httpRequests
             /\ zipWrites' = zipWrites
             /\ zipExists'
             /\ zipSize' = zipSize
             /\ dl'.state = "resolved"
             /\ dl'.result = ZipFileName]_vars

\* the first attempt of a run resolved on a file that was already there
C4_Witness ==
    /\ rt.fn = "getZipFile"
    /\ rt.calls = 1
    /\ dl.state = "resolved"
    /\ dl.result = ZipFileName
    /\ httpRequests = 0
    /\ zipWrites = 0
    /\ zipExists

\* C5: a download attempt answered with a status other than 200 fails with
\* an error naming the status code, and once its deletion of the partial
\* file has completed no archive file is left on disk.
C5_Non200LeavesNoFile ==
    (dl.state = "rejected" /\ dl.status \in BadStatus /\ unlinkPending = 0)
    => /\ Contains(dl.error, ToString(dl.status))
       /\ ~zipExists

\* C6: after a stream-level error of a transfer (request error, response
\* body cut short, write stream error) the download attempt is rejected
\* with that error; it is neither pending nor resolved.
C6_StreamErrorRejects ==
    dl.fault # "" => (dl.state = "rejected" /\ dl.error = <<dl.fault>>)

\* C7: waitForFileReady settles once.  It resolves on the first successful
\* open and polls no more; when every open fails with EBUSY, ENOENT or
\* EPERM it opens the path exactly maxAttempts times and rejects with an
\* error naming the path and maxAttempts.
C7_GateSettlesOnce ==
    /\ [](/\ gate.settles <= 1
          /\ gate.okOpens <= 1
          /\ gate.opens <= gate.maxAttempts
          /\ gate.state = "resolved"
                => gate.settles = 1 /\ gate.okOpens = 1
          /\ (gate.state = "rejected" /\ gate.lastCode \in TransientCodes)
                => /\ gate.settles = 1
                   /\ gate.okOpens = 0
                   /\ gate.opens = gate.maxAttempts
                   /\ Contains(gate.error, ZipFilePath)
                   /\ Contains(gate.error, ToString(gate.maxAttempts)))
    /\ [][/\ gate.okOpens = 1 => gate'.opens = gate.opens
          /\ gate.state \in {"resolved", "rejected"} => gate' = gate]_vars

\* three opens out of three allowed failed with a transient code
C7_Witness ==
    /\ gate.state = "rejected"
    /\ gate.maxAttempts = 3
    /\ gate.opens = 3
    /\ gate.lastCode = "EBUSY"
    /\ gate.settles = 1

\* C8: when the downloaded archive is smaller than 1048576 bytes the run
\* ends at the size check with exit status 1 and a message citing the
\* measured size, without calling the readiness gate or spawning the tool;
\* a file of 1048576 bytes or more goes on to the readiness gate.
C8_SizeValidation ==
    [][(pc = "ValidateSize" /\ pc' # pc /\ zipExists)
          => IF zipSize < 1048576
             THEN /\ pc' = "exited"
                  /\ exitCode' = 1
                  /\ outcome' = "sizeFailed"
                  /\ Contains(err', ToString(zipSize))
                  /\ gate' = GateIdle
                  /\ spawns' = 0
             ELSE /\ pc' = "AwaitReady"
                  /\ exitCode' = -1
                  /\ gate'.state = "opening"]_vars

\* a download of 500 KiB was refused
C8_Witness ==
    /\ outcome = "sizeFailed"
    /\ exitCode = 1
    /\ httpRequests = 1
    /\ Contains(err, "512000")
    /\ spawns = 0

\* what the tool may have printed before it exits
Outputs == UNION {[1..n -> DiagText] : n \in 0..MaxOutputChunks}

\* C9: an unpack call whose tool exits with a non-zero code fails with an
\* error holding the exit code and the captured output; an extraction step
\* that fails finally has spawned the tool exactly 3 times, exits with
\* status 1, and its message still holds the exit code and the output of
\* the last invocation.
C9_ExtractionFailure ==
    /\ (up.state = "rejected" /\ up.code > 0)
          => /\ Contains(up.error, ToString(up.code))
             /\ IsSuffix(up.output, up.error)
             /\ Len(up.error) = Len(up.output) + 2
    /\ outcome = "extractFailed"
          => /\ spawns = 3
             /\ exitCode = 1
             /\ Contains(err, "7-zip exit code")
                   => \E code \in ExitCodes \ {0}, out \in Outputs :
                         IsSuffix(ExitMessage(code, out), err)

\* the tool exited with code 2 after printing a diagnostic, three times
C9_Witness ==
    /\ outcome = "extractFailed"
    /\ spawns = 3
    /\ exitCode = 1
    /\ IsSuffix(<<"7-zip exit code", "2", "ERROR: Data Error">>, err)

\* C10: uninstall with the destination configured, when neither the archive
\* file nor the extracted directory exists, ends with status 0 and reports
\* both the file and the directory as not found.
C10_UninstallNothingToRemove ==
    [][(proc = "uninstall" /\ pc = "RemoveDir" /\ destSet
           /\ fileReport = "notFound" /\ ~targetExists)
          => /\ exitCode' = 0
             /\ fileReport' = "notFound"
             /\ dirReport' = "notFound"]_vars

\* C11: uninstall is best effort.  Whatever the deletion of the archive file
\* did (deleted, not found, failed), the directory step comes next, and,
\* with the destination configured, removeDirectory is run; whatever both
\* steps did, uninstall ends with status 0.
C11_UninstallBestEffort ==
    /\ [](proc = "uninstall"
            => /\ exitCode \in {-1, 0}
               /\ pc = "exited"
                     => /\ exitCode = 0
                        /\ fileReport \in {"deleted", "notFound", "failed"}
                        /\ destSet
                              => dirReport \in {"deleted", "notFound",
                                                "failed"})
    /\ [][(proc = "uninstall" /\ pc = "RemoveFile" /\ pc' # pc)
             => pc' = "RemoveDir" /\ exitCode' = -1]_vars

\* neither the file nor the directory could be deleted, yet uninstall ended well
C11_Witness ==
    /\ proc = "uninstall"
    /\ pc = "exited"
    /\ destSet
    /\ fileReport = "failed"
    /\ dirReport = "failed"
    /\ exitCode = 0
    /\ zipExists
    /\ targetExists

\* C12: when the retried download or the retried extraction throws after its
\* 3 attempts, the run ends there with exit status 1 and never as done; the
\* extraction has its own 3 attempts whatever the download used.
C12_RetriedFailureIsFatal ==
    /\ [](/\ outcome = "downloadFailed"
                => exitCode = 1 /\ httpRequests = 3 /\ spawns = 0
          /\ outcome = "extractFailed" => exitCode = 1 /\ spawns = 3
          /\ spawns > 0 => rt.fn = "unpack" \/ pc = "exited")
    /\ [][(pc \in {"AwaitDownload", "AwaitExtract"} /\ rt.state = "thrown"
              /\ pc' # pc)
             => /\ rt.calls = 3
                /\ pc' = "exited"
                /\ exitCode' = 1
                /\ outcome' = (IF pc = "AwaitDownload" THEN "downloadFailed"
                                                       ELSE "extractFailed")
                /\ IsSuffix(rt.error, err')]_vars

\* the download needed all 3 attempts and the extraction still got 3
C12_Witness ==
    /\ outcome = "extractFailed"
    /\ exitCode = 1
    /\ httpRequests = 3
    /\ spawns = 3

\* C13: from a state with neither archive file nor target directory, an
\* install run that reaches its end followed by an uninstall run in which
\* no deletion fails leaves neither the archive file nor the directory.
C13_InstallUninstallRoundTrip ==
    (/\ proc = "uninstall" /\ pc = "exited"
     /\ runs = 2 /\ hist.prevDone
     /\ ~fs0.zip /\ ~fs0.target
     /\ fileReport # "failed" /\ dirReport # "failed")
    => ~zipExists /\ ~targetExists

\* the archive that install downloaded and the tree it extracted were deleted
C13_Witness ==
    /\ proc = "uninstall" /\ pc = "exited"
    /\ runs = 2 /\ hist.prevDone
    /\ ~fs0.zip /\ ~fs0.target
    /\ fileReport = "deleted" /\ dirReport = "deleted"
    /\ ~zipExists /\ ~targetExists

\* C14: in an install run the stages come in the order download, size
\* check, readiness gate, extraction.  The archive tool is spawned only in
\* the extraction stage, which is entered only from a resolved readiness
\* gate, which is entered only from a size check that measured at least
\* 1048576 bytes, which is entered only from a retried download that
\* returned; and no HTTP request is issued once the tool has been spawned.
C14_PipelineOrder ==
    [][/\ spawns' > spawns => pc = "AwaitExtract" /\ rt.fn = "unpack"
       /\ (pc' = "AwaitExtract" /\ pc # "AwaitExtract")
             => pc = "AwaitReady" /\ gate.state = "resolved"
       /\ (pc' = "AwaitReady" /\ pc # "AwaitReady")
             => pc = "ValidateSize" /\ zipExists /\ zipSize >= 1048576
       /\ (pc' = "ValidateSize" /\ pc # "ValidateSize")
             => /\ pc = "AwaitDownload"
                /\ rt.fn = "getZipFile"
                /\ rt.state = "returned"
       /\ httpRequests' > httpRequests
             => pc = "AwaitDownload" /\ spawns = 0]_vars

\* the tool runs after a download over HTTP passed the check and the gate
C14_Witness ==
    /\ pc = "AwaitExtract"
    /\ up.state = "running"
    /\ spawns = 1
    /\ httpRequests = 2
    /\ zipSize >= 1048576

(***************************************************************************)
(* The names both scripts derive from package.json, for any name and      *)
(* version.                                                                *)
(***************************************************************************)
Names == UNION {[1..n -> NameChars] : n \in 1..MaxNameLen}

nameFrame == <<destSet, urlSet, fs0, fsVars, mainVars, rt, dl, unlinkPending,
               streamLinked, gate, up, op, countVars, reportVars, hist>>

\* const zipFileName = getZipFileName();  (install, line 215)
ComputeZipFileName ==
    /\ pkg.zipFileName = <<>>
    /\ pkg' = [pkg EXCEPT
                 !.zipFileName = GetZipFileNameOf(pkg.name, pkg.version)]
    /\ UNCHANGED nameFrame

\* const targetDirName = zipFileName.replace('.7z', '');  (install, line 216)
ComputeTargetDirName ==
    /\ pkg.zipFileName # <<>>
    /\ pkg.targetDirName = <<>>
    /\ pkg' = [pkg EXCEPT !.targetDirName = TargetDirNameOf(pkg.zipFileName)]
    /\ UNCHANGED nameFrame

\* const compilerDirName = `${packageName}@${packageVersion}`;  (uninstall)
ComputeCompilerDirName ==
    /\ pkg.compilerDirName = <<>>
    /\ pkg' = [pkg EXCEPT
                 !.compilerDirName = CompilerDirNameOf(pkg.name, pkg.version)]
    /\ UNCHANGED nameFrame

InitName ==
    /\ destSet = FALSE
    /\ urlSet = FALSE
    /\ srcExists = TRUE
    /\ toolExists = FALSE
    /\ destDirExists = FALSE
    /\ targetExists = FALSE
    /\ zipExists = FALSE
    /\ zipSize = 0
    /\ AtRest
    /\ \E name \in Names, version \in Versions :
          pkg = PkgOf(Prefix \o name, version)
    /\ rt = RtIdle
    /\ gate = GateIdle
    /\ op = OpIdle

NextName ==
    \/ ComputeZipFileName
    \/ ComputeTargetDirName
    \/ ComputeCompilerDirName

SpecName == InitName /\ [][NextName]_vars

\* C15: for every package name and version, the directory name install
\* tests for (the archive file name with '.7z' replaced by '') is the
\* archive file name without its extension, that is <name>@<version>, and
\* so is the directory name uninstall deletes.
C15_TargetDirNameIsStrippedArchiveName ==
    (pkg.targetDirName # <<>> /\ pkg.compilerDirName # <<>>)
    => /\ pkg.targetDirName
            = SubSeq(pkg.zipFileName, 1,
                     Len(pkg.zipFileName) - Len(Extension))
       /\ pkg.targetDirName
            = SubSeq(pkg.name, 2, Len(pkg.name)) \o <<"@">> \o pkg.version
       /\ pkg.targetDirName = pkg.compilerDirName

\* C16: with AILY_COMPILERS_PATH empty or unset, uninstall deletes no
\* directory: it reports the directory step as skipped, and the only path
\* it may remove is the archive file beside the script.
C16_NoDestinationNoDirectoryDeletion ==
    /\ []((proc = "uninstall" /\ ~destSet)
             => dirReport \in {"none", "skipped"})
    /\ [][(proc' = "uninstall" /\ ~destSet)
             => UNCHANGED <<srcExists, toolExists, destDirExists,
                            targetExists>>]_vars

\* the archive file was deleted, the directory <name>@<version> was kept
C16_Witness ==
    /\ proc = "uninstall" /\ pc = "exited"
    /\ ~destSet
    /\ fileReport = "deleted"
    /\ dirReport = "skipped"
    /\ targetExists

\* C17: in waitForFileReady an open failure whose code is none of EBUSY,
\* ENOENT, EPERM rejects the gate with that error on the poll where it
\* occurs, whatever the number of attempts left, and no poll follows it;
\* only EBUSY, ENOENT and EPERM lead to another poll.
C17_NonTransientOpenErrorRejectsAtOnce ==
    /\ [][(gate.state = "opening" /\ gate'.state \notin {"opening", "closing"}
             /\ gate'.lastCode \notin TransientCodes)
            => /\ gate'.state = "rejected"
               /\ gate'.error = <<gate'.lastCode>>
               /\ gate'.settles = gate.settles + 1
               /\ gate'.opens = gate.opens]_vars
    /\ [][gate'.opens > gate.opens
            => (gate.state = "idle" \/ gate.lastCode \in TransientCodes)]_vars
    /\ [][(gate.state = "rejected" /\ gate.lastCode \notin TransientCodes)
            => (gate'.opens <= gate.opens /\ gate'.settles <= gate.settles)]_vars

\* EACCES on the second of four allowed polls ended the gate
C17_Witness ==
    /\ gate.state = "rejected"
    /\ gate.lastCode = "EACCES"
    /\ gate.error = <<"EACCES">>
    /\ gate.opens = 2
    /\ gate.maxAttempts = 4
    /\ gate.settles = 1

\* C18: every install run reaches a terminal outcome (skip, Done, an early
\* return of a precondition check, or a fatal exit) after at most 3 download
\* attempts, 20 readiness polls and 3 extraction attempts; its download is
\* never left pending with nothing scheduled to settle it.
C18_InstallRunSettles ==
    /\ httpRequests <= DownloadRetries
    /\ gate.opens <= GateAttempts
    /\ spawns <= ExtractRetries
    /\ dl.state # "stalled"
    /\ (proc = "install" /\ pc = "exited")
          => outcome \in {"skip", "done", "srcMissing", "destUnset",
                          "toolMissing", "urlUnset", "downloadFailed",
                          "statFailed", "sizeFailed", "gateFailed",
                          "extractFailed", "crash"}

\* C19: a retried download started when no archive file exists returns
\* success only if one of its attempts received status 200 and its output
\* stream finished and closed; the file-exists short-circuit is never taken
\* on the file an earlier failed attempt of the same run left behind.
C19_FreshDownloadSucceedsOnlyByTransfer ==
    (pc = "AwaitDownload" /\ rt.fn = "getZipFile" /\ rt.state = "returned"
        /\ hist.dlFresh)
    => hist.dlCompleted

\* C20: starting without an extracted directory and running only installs,
\* a run takes the already-installed skip only if an earlier extraction
\* subprocess exited with code 0.
C20_SkipOnlyAfterSuccessfulExtraction ==
    (proc = "install" /\ outcome = "skip" /\ ~fs0.target
        /\ hist.onlyInstalls)
    => hist.extractedOk

====
